---- MODULE Spec2Model ----
(***************************************************************************)
(* Model of the Steam review pipeline:                                     *)
(*   data_collecter.py      get_reviews_with_pagination, save_to_mongo     *)
(*   sentiment_analyzer.py  is_actually_english, get_roberta_sentiment,    *)
(*                          analyze_sentiment                              *)
(*   app.py                 load_data and the disagreement statistics      *)
(* A MongoDB document is a function from the names of the fields it holds  *)
(* to their values; the reviews collection is the sequence of its          *)
(* documents in insertion order.                                           *)
(***************************************************************************)
EXTENDS Integers, Sequences, FiniteSets, TLC

VARIABLES
    reviews_collection,  \* db["reviews"]: sequence of documents
    last_op,             \* the operation that ran last: "none", "save", "analyze"
    df,                  \* the dashboard's DataFrame (load_data), <<>> when not loaded
    selected_game,       \* the dashboard's game selector
    fpc,                 \* get_reviews_with_pagination: "idle", "loop", "break", "done"
    target_count,        \* its target_count argument
    reviews_collected,   \* its accumulator
    cursor,              \* its cursor variable
    requests,            \* number of requests.get calls of the current fetch
    sent_cursor,         \* the 'cursor' parameter of the last request
    resp_cursor,         \* the cursor carried by the last response
    last_event,          \* how the last response was classified
    delivered,           \* items the source delivered in successful non-empty pages
    short_page,          \* a successful non-empty page held fewer than num_per_page items
    empty_page,          \* the source returned a successful page with no items
    fetched,             \* the value returned by get_reviews_with_pagination
    apc,                 \* analyze_sentiment run step by step: "idle", "reset", "found"
    operations,          \* its operations list, between the loop and bulk_write
    detect_log           \* what detect() gave for each selected review of a logged pass

storeVars == <<reviews_collection, last_op>>
dashVars == <<df, selected_game>>
fetchVars == <<fpc, target_count, reviews_collected, cursor, requests, sent_cursor,
               resp_cursor, last_event, delivered, short_page, empty_page, fetched>>
passVars == <<apc, operations, detect_log>>
vars == <<reviews_collection, last_op, df, selected_game, fpc, target_count,
          reviews_collected, cursor, requests, sent_cursor, resp_cursor, last_event,
          delivered, short_page, empty_page, fetched, apc, operations, detect_log>>

(***************************************************************************)
(* Bounds of the model and the values the environment draws from.          *)
(***************************************************************************)
MaxBatch == 2

RecIds == {"r1", "r2"}
Games == {"Elden Ring"}

\* Review bodies, as sequences of characters.
T_empty == <<>>
T_blank == <<" ">>
T_spaces == <<" ", "\t", " ">>
T_short == <<"G", "G">>
T_long == <<"g", "o", "o", "d">>
Texts == {T_empty, T_short, T_long}
GateTexts == Texts \cup {T_blank, T_spaces}
Whitespace == {" ", "\t", "\n"}

\* What langdetect.detect(text) gives when it is called.
DetectOutcomes == {"en", "es", "LangDetectException"}

\* VADER compound scores, in units of 1/10000.
VaderScores == {-500, 499, 500}

\* What the RoBERTa model gives: softmax scores in percent over
\* <<Negative, Neutral, Positive>>, or an exception inside the call.
ModelOutputs == {[ok |-> TRUE, scores |-> <<3, 7, 90>>],
                 [ok |-> FALSE, scores |-> <<0, 0, 0>>]}

(***************************************************************************)
(* MongoDB update operators on one document.                               *)
(***************************************************************************)
Has(doc, f) == f \in DOMAIN doc

\* {"$set": upd}
DocSet(doc, upd) ==
    [f \in (DOMAIN doc) \cup (DOMAIN upd) |-> IF f \in DOMAIN upd THEN upd[f] ELSE doc[f]]

\* {"$unset": fields}
DocUnset(doc, fields) == [f \in (DOMAIN doc) \ fields |-> doc[f]]

\* A query filter {field: value}.
Matches(doc, flt) == Has(doc, flt.field) /\ doc[flt.field] = flt.value

MatchingIdx(coll, flt) == {i \in 1..Len(coll) : Matches(coll[i], flt)}

FirstMatch(coll, flt) ==
    LET m == MatchingIdx(coll, flt) IN CHOOSE i \in m : \A j \in m : i <= j

\* The UpdateOne mutant: an upsert replaces the matched document by the filter
\* and $set fields (replace_one) instead of merging them into it.
UpdateOne_Replace(coll, op) ==
    IF \E i \in 1..Len(coll) : Matches(coll[i], op.filter)
    THEN [coll EXCEPT ![FirstMatch(coll, op.filter)] =
              IF op.upsert
              THEN DocSet(DocSet([f \in {"_id"} |-> @["_id"]],
                                 [f \in {op.filter.field} |-> op.filter.value]),
                          op.set)
              ELSE DocSet(@, op.set)]
    ELSE IF op.upsert
         THEN Append(coll, DocSet(DocSet([f \in {"_id"} |-> Len(coll) + 1],
                                         [f \in {op.filter.field} |-> op.filter.value]),
                                  op.set))
         ELSE coll

\* The UpdateOne mutant: an upsert inserts without looking for a match.
UpdateOne_Insert(coll, op) ==
    IF op.upsert
    THEN Append(coll, DocSet(DocSet([f \in {"_id"} |-> Len(coll) + 1],
                                    [f \in {op.filter.field} |-> op.filter.value]),
                             op.set))
    ELSE IF \E i \in 1..Len(coll) : Matches(coll[i], op.filter)
         THEN [coll EXCEPT ![FirstMatch(coll, op.filter)] = DocSet(@, op.set)]
         ELSE coll

\* UpdateOne(filter, {"$set": set}, upsert) applied by the server: the first
\* matching document is merged with the $set fields; with no match and
\* upsert=True a new document is inserted from the filter and the $set fields
\* under a fresh _id.
UpdateOne(coll, op) ==
    IF \E i \in 1..Len(coll) : Matches(coll[i], op.filter)
    THEN [coll EXCEPT ![FirstMatch(coll, op.filter)] = DocSet(@, op.set)]
    ELSE IF op.upsert
         THEN Append(coll, DocSet(DocSet([f \in {"_id"} |-> Len(coll) + 1],
                                         [f \in {op.filter.field} |-> op.filter.value]),
                                  op.set))
         ELSE coll

RECURSIVE ApplyInOrder(_, _)
ApplyInOrder(coll, ops) ==
    IF ops = <<>> THEN coll
    ELSE ApplyInOrder(UpdateOne(coll, Head(ops)), Tail(ops))

\* The bulk_write mutant: every operation is matched against the collection as
\* it was before the batch.
RECURSIVE ApplyOnSnapshot(_, _, _)
ApplyOnSnapshot(snapshot, coll, ops) ==
    IF ops = <<>> THEN coll
    ELSE ApplyOnSnapshot(snapshot,
             IF MatchingIdx(snapshot, Head(ops).filter) # {}
             THEN UpdateOne(coll, Head(ops))
             ELSE Append(coll, DocSet(DocSet([f \in {"_id"} |-> Len(coll) + 1],
                                 [f \in {Head(ops).filter.field} |-> Head(ops).filter.value]),
                                 Head(ops).set)),
             Tail(ops))

bulk_write_Snapshot(coll, ops) == ApplyOnSnapshot(coll, coll, ops)

\* reviews_collection.bulk_write(operations): ordered, one operation after another.
bulk_write(coll, ops) == ApplyInOrder(coll, ops)

\* reviews_collection.update_many({}, {"$unset": fields})
update_many_unset(coll, fields) == [i \in 1..Len(coll) |-> DocUnset(coll[i], fields)]

\* list(reviews_collection.find({field: {"$exists": False}}))
find_missing(coll, field) == SelectSeq(coll, LAMBDA d : ~Has(d, field))

(***************************************************************************)
(* data_collecter.py: save_to_mongo                                        *)
(***************************************************************************)
\* A raw review payload of the Steam API.
Payloads == [recommendationid : RecIds, review : Texts]

Batches == UNION {[1..n -> Payloads] : n \in 0..MaxBatch}

\* The operations list save_to_mongo builds: one upsert per review, keyed by
\* recommendationid, setting the whole payload with game_name added to it.
save_ops(reviews, game_name) ==
    [i \in 1..Len(reviews) |->
        [filter |-> [field |-> "recommendationid", value |-> reviews[i].recommendationid],
         set |-> DocSet(reviews[i], [f \in {"game_name"} |-> game_name]),
         upsert |-> TRUE]]

\* The collection after save_to_mongo(reviews, game_name).
save_to_mongo(coll, reviews, game_name) ==
    IF reviews = <<>> THEN coll
    ELSE bulk_write(coll, save_ops(reviews, game_name))

(***************************************************************************)
(* sentiment_analyzer.py                                                   *)
(***************************************************************************)
ShortLen == 3
AnalysisVersion == "hybrid_v2"
SkipReason == "Not English/Empty"
RobertaLabels == <<"Negative", "Neutral", "Positive">>

\* text.strip()
RECURSIVE LStrip(_)
LStrip(text) ==
    IF text # <<>> /\ Head(text) \in Whitespace THEN LStrip(Tail(text)) ELSE text

RECURSIVE RStrip(_)
RStrip(text) ==
    IF text # <<>> /\ text[Len(text)] \in Whitespace
    THEN RStrip(SubSeq(text, 1, Len(text) - 1)) ELSE text

Strip(text) == RStrip(LStrip(text))

\* The gate mutant: detection is consulted whatever the length.
is_actually_english_NoShortRule(text, det) ==
    IF det = "LangDetectException" THEN FALSE ELSE det = "en"

\* is_actually_english(text), det being what detect(text) gives when called.
is_actually_english(text, det) ==
    IF Len(text) < ShortLen THEN TRUE
    ELSE IF det = "LangDetectException" THEN FALSE
    ELSE det = "en"

\* Whether is_actually_english calls detect at all.
detect_called(text) == ~(Len(text) < ShortLen)

\* np.argsort(scores)[-1]
ArgMax(scores) == CHOOSE i \in 1..Len(scores) : \A j \in 1..Len(scores) : scores[j] <= scores[i]

\* The classifier mutant: a failure is answered by a label other than the
\* safe default.
get_roberta_sentiment_WrongDefault(out) ==
    IF out.ok
    THEN [label |-> RobertaLabels[ArgMax(out.scores)],
          confidence |-> out.scores[ArgMax(out.scores)]]
    ELSE [label |-> "Negative", confidence |-> 0]

\* get_roberta_sentiment(text), out being what the model call gives.
get_roberta_sentiment(out) ==
    IF out.ok
    THEN [label |-> RobertaLabels[ArgMax(out.scores)],
          confidence |-> out.scores[ArgMax(out.scores)]]
    ELSE [label |-> "Neutral", confidence |-> 0]

\* What the environment supplies for one record of a pass. The scorers'
\* outputs vary where detection answers 'en'; one value stands for them
\* where it answers otherwise.
RecInputs ==
    [det : {"en"}, compound : VaderScores, model : ModelOutputs] \cup
    [det : DetectOutcomes \ {"en"}, compound : {499},
     model : {[ok |-> FALSE, scores |-> <<0, 0, 0>>]}]

\* review.get('review', '')
review_text(doc) == IF Has(doc, "review") THEN doc["review"] ELSE <<>>

\* The cleanliness check of the loop body.
is_skipped(text, det) == Strip(text) = <<>> \/ ~is_actually_english(text, det)

\* The patch mutant: the patch writes the selected review's text back.
analyze_op_WriteBack(review, inp) ==
    IF is_skipped(review_text(review), inp.det)
    THEN [filter |-> [field |-> "_id", value |-> review["_id"]],
          set |-> [skipped |-> TRUE, reason |-> SkipReason,
                   review |-> review_text(review)],
          upsert |-> FALSE]
    ELSE [filter |-> [field |-> "_id", value |-> review["_id"]],
          set |-> [vader_score |-> inp.compound,
                   roberta_label |-> get_roberta_sentiment(inp.model).label,
                   roberta_confidence |-> get_roberta_sentiment(inp.model).confidence,
                   analyzed_at |-> AnalysisVersion,
                   review |-> review_text(review)],
          upsert |-> FALSE]

\* The UpdateOne the loop body appends for one selected review.
analyze_op(review, inp) ==
    IF is_skipped(review_text(review), inp.det)
    THEN [filter |-> [field |-> "_id", value |-> review["_id"]],
          set |-> [skipped |-> TRUE, reason |-> SkipReason],
          upsert |-> FALSE]
    ELSE [filter |-> [field |-> "_id", value |-> review["_id"]],
          set |-> [vader_score |-> inp.compound,
                   roberta_label |-> get_roberta_sentiment(inp.model).label,
                   roberta_confidence |-> get_roberta_sentiment(inp.model).confidence,
                   analyzed_at |-> AnalysisVersion],
          upsert |-> FALSE]

\* The reset at the top of analyze_sentiment.
reset_analysis(coll) == update_many_unset(coll, {"roberta_label", "vader_score"})

\* reviews_to_process
reviews_to_process(coll) == find_missing(reset_analysis(coll), "roberta_label")

\* The pass mutant: the selection is made before the reset.
analyze_sentiment_FindFirst(coll, inputs) ==
    LET todo == find_missing(coll, "roberta_label")
        cleared == reset_analysis(coll)
    IN  IF todo = <<>> THEN cleared
        ELSE bulk_write(cleared, [i \in 1..Len(todo) |-> analyze_op(todo[i], inputs[i])])

\* The collection after analyze_sentiment(), inputs[i] being what the
\* environment supplies for the i-th selected review.
analyze_sentiment(coll, inputs) ==
    LET cleared == reset_analysis(coll)
        todo == find_missing(cleared, "roberta_label")
    IN  IF todo = <<>> THEN cleared
        ELSE bulk_write(cleared, [i \in 1..Len(todo) |-> analyze_op(todo[i], inputs[i])])

(***************************************************************************)
(* Initial state and the store's actions.                                  *)
(***************************************************************************)
InitStore ==
    /\ reviews_collection = <<>>
    /\ last_op = "none"

InitDash ==
    /\ df = <<>>
    /\ selected_game = "none"

InitFetch ==
    /\ fpc = "idle"
    /\ target_count = 0
    /\ reviews_collected = <<>>
    /\ cursor = "*"
    /\ requests = 0
    /\ sent_cursor = "none"
    /\ resp_cursor = "none"
    /\ last_event = "none"
    /\ delivered = 0
    /\ short_page = FALSE
    /\ empty_page = FALSE
    /\ fetched = <<>>

InitPass ==
    /\ apc = "idle"
    /\ operations = <<>>
    /\ detect_log = <<>>

Init == InitStore /\ InitDash /\ InitFetch /\ InitPass

\* save_to_mongo(reviews, game_name) with a batch of raw payloads.
SaveToMongo ==
    \E n \in 0..MaxBatch, game_name \in Games : \E reviews \in [1..n -> Payloads] :
        /\ reviews_collection' = save_to_mongo(reviews_collection, reviews, game_name)
        /\ last_op' = "save"
        /\ df' = <<>>
        /\ selected_game' = "none"
        /\ UNCHANGED <<fetchVars, passVars>>

\* One run of analyze_sentiment().
AnalyzeSentiment ==
    \E inputs \in [1..Len(reviews_to_process(reviews_collection)) -> RecInputs] :
        /\ reviews_collection' = analyze_sentiment(reviews_collection, inputs)
        /\ last_op' = "analyze"
        /\ df' = <<>>
        /\ selected_game' = "none"
        /\ UNCHANGED <<fetchVars, passVars>>

Next == SaveToMongo \/ AnalyzeSentiment

Spec == Init /\ [][Next]_vars

(***************************************************************************)
(* Record states.                                                          *)
(***************************************************************************)
PayloadFields == {"recommendationid", "review", "game_name"}
AnnotationFields == {"vader_score", "roberta_label", "roberta_confidence", "analyzed_at",
                     "skipped", "reason"}
AllFields == {"_id"} \cup PayloadFields \cup AnnotationFields

SkippedFlag(doc) == Has(doc, "skipped") /\ doc["skipped"] = TRUE
FullyAnnotated(doc) ==
    Has(doc, "roberta_label") /\ Has(doc, "vader_score") /\ ~SkippedFlag(doc)
FullySkipped(doc) ==
    SkippedFlag(doc) /\ ~Has(doc, "roberta_label") /\ ~Has(doc, "vader_score")
SameField(d, e, f) == (Has(d, f) <=> Has(e, f)) /\ (Has(d, f) => d[f] = e[f])
Docs == {reviews_collection[i] : i \in 1..Len(reviews_collection)}

(***************************************************************************)
(* C1: after a completed pass of analyze_sentiment every stored record is  *)
(* fully annotated (labels present, not skipped) or fully skipped          *)
(* (skipped, no labels).                                                   *)
(***************************************************************************)
C1_NoPartialAnnotation ==
    last_op = "analyze" => \A d \in Docs : FullyAnnotated(d) \/ FullySkipped(d)

(***************************************************************************)
(* C2: a pass begins by clearing skipped/reason on every skipped record,   *)
(* and a record that was skipped before the pass and that the pass finds   *)
(* eligible (it is given a context label) ends the pass annotated with     *)
(* skipped and reason cleared.                                             *)
(***************************************************************************)
C2_SkipReconsidered ==
    [][last_op' = "analyze" =>
          \A i \in 1..Len(reviews_collection) :
              /\ ~Has(reset_analysis(reviews_collection)[i], "skipped")
              /\ ~Has(reset_analysis(reviews_collection)[i], "reason")
              /\ (SkippedFlag(reviews_collection[i]) /\ Has(reviews_collection'[i], "roberta_label"))
                    => /\ FullyAnnotated(reviews_collection'[i])
                       /\ ~Has(reviews_collection'[i], "reason")]_vars

(***************************************************************************)
(* C3: upsert idempotence. From every reachable store and for every batch  *)
(* and game name, save_to_mongo applied twice leaves the collection that   *)
(* save_to_mongo applied once leaves.                                      *)
(***************************************************************************)
C3_UpsertIdempotent ==
    \A reviews \in Batches, game_name \in Games :
        save_to_mongo(save_to_mongo(reviews_collection, reviews, game_name), reviews, game_name)
            = save_to_mongo(reviews_collection, reviews, game_name)

C3_Witness ==
    /\ last_op = "save"
    /\ Len(reviews_collection) = 2
    /\ \E d \in Docs : FullyAnnotated(d)
    /\ \E d \in Docs : FullySkipped(d)

(***************************************************************************)
(* C4: an upsert leaves every field outside the raw payload                *)
(* (recommendationid, review, game_name) of every stored record as it was, *)
(* so the annotation of an already annotated record is not overwritten.    *)
(***************************************************************************)
C4_AnnotationKept ==
    [][last_op' = "save" =>
          \A i \in 1..Len(reviews_collection) :
              /\ i <= Len(reviews_collection')
              /\ \A f \in AllFields \ PayloadFields :
                     SameField(reviews_collection[i], reviews_collection'[i], f)]_vars

\* An annotated record whose text is empty: the text was rewritten by an
\* upsert after the pass that annotated it.
C4_Witness ==
    /\ last_op = "save"
    /\ \E d \in Docs : Has(d, "roberta_label") /\ Has(d, "roberta_confidence")
                       /\ d["review"] = T_empty

(***************************************************************************)
(* C5: no two stored records share a recommendationid, and no operation    *)
(* removes a record or changes its key.                                    *)
(***************************************************************************)
UniqueIds(coll) ==
    \A i, j \in 1..Len(coll) :
        coll[i]["recommendationid"] = coll[j]["recommendationid"] => i = j

C5_UniqueNeverDeleted ==
    [][/\ UniqueIds(reviews_collection')
       /\ Len(reviews_collection') >= Len(reviews_collection)
       /\ \A i \in 1..Len(reviews_collection) :
              /\ SameField(reviews_collection[i], reviews_collection'[i], "_id")
              /\ SameField(reviews_collection[i], reviews_collection'[i], "recommendationid")]_vars

\* Two records, one of them re-ingested after it was annotated.
C5_Witness ==
    /\ last_op = "save"
    /\ Len(reviews_collection) = 2
    /\ reviews_collection[1]["recommendationid"] # reviews_collection[2]["recommendationid"]
    /\ \E d \in Docs : Has(d, "roberta_label") /\ d["review"] = T_empty

(***************************************************************************)
(* C9: for a text shorter than the threshold is_actually_english answers   *)
(* True without calling detect, whatever detect would give; a text that is *)
(* empty or whitespace only is skipped by the pass whatever its length. So *)
(* after a pass every record with a short non-blank text carries a label   *)
(* and every record with a blank text is skipped without one.              *)
(***************************************************************************)
C9_GateShortRule ==
    /\ \A t \in GateTexts, det \in DetectOutcomes :
           /\ Len(t) < ShortLen => (is_actually_english(t, det) /\ ~detect_called(t))
           /\ Strip(t) = <<>> => is_skipped(t, det)
    /\ last_op = "analyze" =>
           \A d \in Docs :
               /\ (Len(d["review"]) < ShortLen /\ Strip(d["review"]) # <<>>)
                      => Has(d, "roberta_label")
               /\ Strip(d["review"]) = <<>>
                      => (SkippedFlag(d) /\ ~Has(d, "roberta_label"))

C9_Witness ==
    /\ last_op = "analyze"
    /\ \E d \in Docs : d["review"] = T_short /\ Has(d, "roberta_label")
    /\ \E d \in Docs : d["review"] = T_empty /\ SkippedFlag(d) /\ ~Has(d, "roberta_label")

(***************************************************************************)
(* data_collecter.py: get_reviews_with_pagination                          *)
(***************************************************************************)
NumPerPage == 100
DefaultTarget == 500
StartCursor == "*"

TargetCounts == {DefaultTarget, 250}
PageSizes == {0, 50, NumPerPage}
Cursors == {"c1", "c2"}

\* What one requests.get + response.json() gives: an exception (network or
\* decoding failure, or a body without 'success'/'reviews'), or a body with
\* a success flag, n reviews and a cursor (or none).
Responses ==
    [kind : {"exception"}, success : {0}, n : {0}, cursor : {"missing"}] \cup
    [kind : {"json"}, success : {0, 1}, n : PageSizes, cursor : Cursors \cup {"missing"}]

Min(a, b) == IF a <= b THEN a ELSE b

\* The reviews of a page: the source's items are numbered as it delivers them.
PageItems(first, n) == [i \in 1..n |-> first + i - 1]

\* The loop-condition mutant: one more round when the target is met exactly.
loop_cond_OffByOne(collected, target) == Len(collected) <= target

\* while len(reviews_collected) < target_count
loop_cond(collected, target) == Len(collected) < target

\* The loop-body mutant: an empty or failed page does not end the loop.
handle_response_NoBreak(collected, cur, resp, items) ==
    IF resp.kind = "exception"
    THEN [collected |-> collected, cursor |-> cur, break |-> TRUE, event |-> "exception"]
    ELSE IF resp.success = 1 /\ resp.n > 0
    THEN IF resp.cursor = "missing"
         THEN [collected |-> collected \o items, cursor |-> cur, break |-> TRUE,
               event |-> "exception"]
         ELSE [collected |-> collected \o items, cursor |-> resp.cursor, break |-> FALSE,
               event |-> "page"]
    ELSE [collected |-> collected, cursor |-> cur, break |-> FALSE,
          event |-> IF resp.success = 1 THEN "empty" ELSE "failed"]

\* The loop-body mutant: a failure throws away what was accumulated.
handle_response_Discard(collected, cur, resp, items) ==
    IF resp.kind = "exception"
    THEN [collected |-> <<>>, cursor |-> cur, break |-> TRUE, event |-> "exception"]
    ELSE IF resp.success = 1 /\ resp.n > 0
    THEN IF resp.cursor = "missing"
         THEN [collected |-> <<>>, cursor |-> cur, break |-> TRUE, event |-> "exception"]
         ELSE [collected |-> collected \o items, cursor |-> resp.cursor, break |-> FALSE,
               event |-> "page"]
    ELSE [collected |-> collected, cursor |-> cur, break |-> TRUE,
          event |-> IF resp.success = 1 THEN "empty" ELSE "failed"]

\* The body of the while loop after the request: the try block and its
\* except clause. A body with success = 1 and reviews but no 'cursor' raises
\* KeyError after the reviews were added.
handle_response(collected, cur, resp, items) ==
    IF resp.kind = "exception"
    THEN [collected |-> collected, cursor |-> cur, break |-> TRUE, event |-> "exception"]
    ELSE IF resp.success = 1 /\ resp.n > 0
    THEN IF resp.cursor = "missing"
         THEN [collected |-> collected \o items, cursor |-> cur, break |-> TRUE,
               event |-> "exception"]
         ELSE [collected |-> collected \o items, cursor |-> resp.cursor, break |-> FALSE,
               event |-> "page"]
    ELSE [collected |-> collected, cursor |-> cur, break |-> TRUE,
          event |-> IF resp.success = 1 THEN "empty" ELSE "failed"]

\* reviews_collected[:target_count]
trim(collected, target) == SubSeq(collected, 1, Min(target, Len(collected)))

\* get_reviews_with_pagination(app_id, target_count) is called.
FetchCall ==
    /\ fpc \in {"idle", "done"}
    /\ \E t \in TargetCounts : target_count' = t
    /\ fpc' = "loop"
    /\ reviews_collected' = <<>>
    /\ cursor' = StartCursor
    /\ requests' = 0
    /\ sent_cursor' = "none"
    /\ resp_cursor' = "none"
    /\ last_event' = "none"
    /\ delivered' = 0
    /\ short_page' = FALSE
    /\ empty_page' = FALSE
    /\ fetched' = <<>>
    /\ UNCHANGED <<storeVars, dashVars, passVars>>

\* One round of the while loop: the request and the handling of its response.
FetchPage ==
    /\ fpc = "loop"
    /\ loop_cond(reviews_collected, target_count)
    /\ \E resp \in Responses :
         LET good == resp.kind = "json" /\ resp.success = 1 /\ resp.n > 0
             items == PageItems(delivered + 1, resp.n)
             out == handle_response(reviews_collected, cursor, resp, items)
         IN  /\ requests' = requests + 1
             /\ sent_cursor' = cursor
             /\ resp_cursor' = IF resp.kind = "json" THEN resp.cursor ELSE "missing"
             /\ delivered' = IF good THEN delivered + resp.n ELSE delivered
             /\ short_page' = (short_page \/ (good /\ resp.n < NumPerPage))
             /\ empty_page' = (empty_page \/ (resp.kind = "json" /\ resp.success = 1 /\ resp.n = 0))
             /\ reviews_collected' = out.collected
             /\ cursor' = out.cursor
             /\ last_event' = out.event
             /\ fpc' = IF out.break THEN "break" ELSE "loop"
    /\ UNCHANGED <<target_count, fetched, storeVars, dashVars, passVars>>

\* The loop is left and the trimmed list is returned.
FetchReturn ==
    /\ \/ fpc = "break"
       \/ fpc = "loop" /\ ~loop_cond(reviews_collected, target_count)
    /\ fetched' = trim(reviews_collected, target_count)
    /\ fpc' = "done"
    /\ UNCHANGED <<target_count, reviews_collected, cursor, requests, sent_cursor, resp_cursor,
                   last_event, delivered, short_page, empty_page, storeVars, dashVars,
                   passVars>>

NextFetch == FetchCall \/ FetchPage \/ FetchReturn

SpecFetch == Init /\ [][NextFetch]_vars

\* Every request is answered and the loop keeps running.
FairSpecFetch == SpecFetch /\ WF_vars(FetchPage) /\ WF_vars(FetchReturn)

(***************************************************************************)
(* C6: with target 500 and 100 reviews per page a fetch issues at most 5   *)
(* requests. As claimed: whenever the source returns no empty page.        *)
(***************************************************************************)
C6_BoundNoEmptyPage ==
    (fpc = "done" /\ target_count = DefaultTarget /\ ~empty_page)
        => (requests <= DefaultTarget \div NumPerPage /\ Len(fetched) <= DefaultTarget)

(***************************************************************************)
(* C6, amended: with target 500 a fetch issues at most 5 requests whenever *)
(* every non-empty page holds the full 100 reviews; and a fetch never      *)
(* returns more than its target.                                           *)
(***************************************************************************)
C6_BoundFullPages ==
    fpc = "done" =>
        /\ Len(fetched) <= target_count
        /\ (target_count = DefaultTarget /\ ~short_page)
               => requests <= DefaultTarget \div NumPerPage

C6_Witness ==
    /\ fpc = "done"
    /\ target_count = DefaultTarget
    /\ ~short_page
    /\ requests = DefaultTarget \div NumPerPage
    /\ Len(fetched) = DefaultTarget

(***************************************************************************)
(* C7: every fetch terminates; a request is issued only while the count is *)
(* below the target and no response was empty, unsuccessful or failed; the *)
(* first request carries the start cursor and each later one the cursor of *)
(* the response before it.                                                 *)
(***************************************************************************)
C7_TerminatesAndChains ==
    /\ (fpc = "loop") ~> (fpc = "done")
    /\ [][requests' = requests + 1 =>
             /\ last_event \in {"none", "page"}
             /\ Len(reviews_collected) < target_count
             /\ sent_cursor' = IF requests = 0 THEN StartCursor ELSE resp_cursor]_vars

C7_Witness ==
    /\ fpc = "done"
    /\ requests = 3
    /\ last_event = "empty"
    /\ sent_cursor = "c2"

(***************************************************************************)
(* C8: a fetch returns the first min(target, N) of the N items delivered   *)
(* in successful non-empty pages, in arrival order, also when it ends in a *)
(* network or decoding failure.                                            *)
(***************************************************************************)
C8_ReturnsPrefix ==
    fpc = "done" => fetched = [i \in 1..Min(target_count, delivered) |-> i]

C8_Witness ==
    /\ fpc = "done"
    /\ last_event = "exception"
    /\ delivered > target_count
    /\ Len(fetched) = target_count

(***************************************************************************)
(* app.py: load_data and the model comparison tab                          *)
(***************************************************************************)
PosThreshold == 500
NegThreshold == -500

\* df['roberta_label'] after the column is created or its gaps are filled.
label_or_skipped(doc) == IF Has(doc, "roberta_label") THEN doc["roberta_label"] ELSE "Skipped"

\* df.columns: the fields some document of the collection holds.
columns(coll) == UNION {DOMAIN coll[i] : i \in 1..Len(coll)}

\* A numeric column after pd.to_numeric(...).fillna(0.0), which runs only
\* for a column the frame has.
fill_numeric(row, cols, col) ==
    IF col \in cols /\ ~Has(row, col) THEN DocSet(row, [f \in {col} |-> 0]) ELSE row

\* row.get('vader_score', 0.0)
row_score(row) == IF Has(row, "vader_score") THEN row["vader_score"] ELSE 0

\* The label mutant: the positive threshold itself is not Positive.
get_vader_label_Strict(roberta_label, score) ==
    IF roberta_label = "Skipped" THEN "Skipped"
    ELSE IF score > PosThreshold THEN "Positive"
    ELSE IF score <= NegThreshold THEN "Negative"
    ELSE "Neutral"

\* get_vader_label(row)
get_vader_label(roberta_label, score) ==
    IF roberta_label = "Skipped" THEN "Skipped"
    ELSE IF score >= PosThreshold THEN "Positive"
    ELSE IF score <= NegThreshold THEN "Negative"
    ELSE "Neutral"

\* df['models_agree']
models_agree(roberta_label, vader_label) ==
    (roberta_label = vader_label) /\ (roberta_label # "Skipped")

\* One row of the DataFrame load_data returns, cols being the frame's columns.
load_row(doc, cols) ==
    LET filled == fill_numeric(fill_numeric(doc, cols, "vader_score"), cols,
                               "roberta_confidence")
        rl == label_or_skipped(doc)
        vl == get_vader_label(rl, row_score(filled))
    IN  DocSet(filled, [roberta_label |-> rl,
                        review_length |-> Len(review_text(doc)),
                        vader_label |-> vl,
                        models_agree |-> models_agree(rl, vl)])

\* load_data(): an empty frame when the collection is empty.
load_data(coll) == [i \in 1..Len(coll) |-> load_row(coll[i], columns(coll))]

\* game_df = df[df['game_name'] == selected_game]
game_df(frame, game) == SelectSeq(frame, LAMBDA r : r["game_name"] = game)

\* disagreement_df = game_df[~game_df['models_agree']]
disagreement_df(frame) == SelectSeq(frame, LAMBDA r : ~r["models_agree"])

\* game_df[game_df['models_agree']], the "Models Agree" view
agreement_df(frame) == SelectSeq(frame, LAMBDA r : r["models_agree"])

\* disagreement_rate, in tenths of a percent
disagreement_rate(frame) ==
    IF Len(frame) > 0 THEN (Len(disagreement_df(frame)) * 1000) \div Len(frame) ELSE 0

\* The dashboard script runs: the frame is loaded and a game is selected;
\* with an empty frame the script stops at st.stop().
LoadData ==
    /\ df = <<>>
    /\ reviews_collection # <<>>
    /\ df' = load_data(reviews_collection)
    /\ \E g \in {df'[i]["game_name"] : i \in 1..Len(df')} : selected_game' = g
    /\ UNCHANGED <<storeVars, fetchVars, passVars>>

NextDash == SaveToMongo \/ AnalyzeSentiment \/ LoadData

SpecDash == Init /\ [][NextDash]_vars

InFrame(frame, row) == \E k \in 1..Len(frame) : frame[k]["_id"] = row["_id"]

(***************************************************************************)
(* C10: in the dashboard's consensus statistics two labels agree iff both  *)
(* are not Skipped and equal, and a record with skipped = true is in       *)
(* neither the agreement set nor the disagreement set, so that it does not *)
(* count towards the disagreement rate.                                    *)
(***************************************************************************)
C10_SkippedExcluded ==
    df # <<>> =>
        LET rows == game_df(df, selected_game) IN
        \A k \in 1..Len(rows) :
            /\ rows[k]["models_agree"] <=>
                   /\ rows[k]["roberta_label"] # "Skipped"
                   /\ rows[k]["vader_label"] # "Skipped"
                   /\ rows[k]["roberta_label"] = rows[k]["vader_label"]
            /\ SkippedFlag(rows[k]) =>
                   /\ ~InFrame(agreement_df(rows), rows[k])
                   /\ ~InFrame(disagreement_df(rows), rows[k])

(***************************************************************************)
(* sentiment_analyzer.py: a write failure in the pass's bulk_write         *)
(***************************************************************************)
\* The operations list of a pass over coll (already reset), inputs[i] being
\* what the environment supplies for the i-th selected review.
pass_operations(coll, inputs) ==
    LET todo == find_missing(coll, "roberta_label")
    IN  [i \in 1..Len(todo) |-> analyze_op(todo[i], inputs[i])]

\* An ordered bulk_write whose operation k + 1 fails: the server has applied
\* the first k operations, drops the rest and BulkWriteError is raised.
bulk_write_failing(coll, ops, k) == bulk_write(coll, SubSeq(ops, 1, k))

\* A run of analyze_sentiment() whose bulk_write raises: nothing catches the
\* exception, the run ends with it.
AnalyzeSentimentFails ==
    /\ reviews_collection # <<>>
    /\ \E inputs \in [1..Len(reviews_to_process(reviews_collection)) -> RecInputs] :
         \E k \in 0..(Len(inputs) - 1) :
            reviews_collection' =
                bulk_write_failing(reset_analysis(reviews_collection),
                                   pass_operations(reset_analysis(reviews_collection), inputs),
                                   k)
    /\ last_op' = "analyze_failed"
    /\ df' = <<>>
    /\ selected_game' = "none"
    /\ UNCHANGED <<fetchVars, passVars>>

NextFail == SaveToMongo \/ AnalyzeSentiment \/ AnalyzeSentimentFails

SpecFail == Init /\ [][NextFail]_vars

(***************************************************************************)
(* C11: a write failure in the pass's bulk_write commits none of the       *)
(* batch's patches: after the failed run every record is as it was before  *)
(* the pass or as the reset left it (unanalyzed), none carries a patch of  *)
(* the failed batch.                                                       *)
(***************************************************************************)
C11_NoPartialBatch ==
    [][last_op' = "analyze_failed" =>
          /\ Len(reviews_collection') = Len(reviews_collection)
          /\ \A i \in 1..Len(reviews_collection) :
                 \/ reviews_collection'[i] = reviews_collection[i]
                 \/ reviews_collection'[i] = reset_analysis(reviews_collection)[i]]_vars

(***************************************************************************)
(* C12: with the gate and the classifiers answering the same for the same  *)
(* record and no upsert in between, running analyze_sentiment twice leaves *)
(* the store as running it once does, from every starting state.           *)
(***************************************************************************)
PassInputs(coll) == [1..Len(reviews_to_process(coll)) -> RecInputs]

C12_PassIdempotent ==
    \A inputs \in PassInputs(reviews_collection) :
        LET once == analyze_sentiment(reviews_collection, inputs)
        IN  analyze_sentiment(once, inputs) = once

\* A completed pass over a record that an earlier pass had skipped and this
\* one annotated, and that a further pass would leave as it is.
C12_Witness ==
    /\ last_op = "analyze"
    /\ \E d \in Docs : SkippedFlag(d) /\ Has(d, "roberta_label")
    /\ \E d \in Docs : SkippedFlag(d) /\ ~Has(d, "roberta_label")
    /\ \E inputs \in PassInputs(reviews_collection) :
           analyze_sentiment(reviews_collection, inputs) = reviews_collection

(***************************************************************************)
(* The analyzer's claims are checked over the runs of the store.           *)
(***************************************************************************)
NextPass == SaveToMongo \/ AnalyzeSentiment

SpecPass == Init /\ [][NextPass]_vars

DocById(coll, id) == coll[CHOOSE j \in 1..Len(coll) : coll[j]["_id"] = id]

(***************************************************************************)
(* C13: a failing context classifier is answered by the safe default       *)
(* (Neutral, confidence 0): the pass goes on, every other selected record  *)
(* is processed and the failing one ends the pass annotated with the       *)
(* default. A failing language detection does not abort the pass either:   *)
(* its record ends the pass skipped.                                       *)
(***************************************************************************)
C13_FailuresContained ==
    \A inputs \in PassInputs(reviews_collection) :
        LET todo == reviews_to_process(reviews_collection)
            after == analyze_sentiment(reviews_collection, inputs)
        IN  /\ Len(after) = Len(reviews_collection)
            /\ \A i \in 1..Len(todo) :
                 LET text == review_text(todo[i])
                     d == DocById(after, todo[i]["_id"])
                     scored == ~is_skipped(text, inputs[i].det)
                 IN  /\ Has(d, "roberta_label") \/ SkippedFlag(d)
                     /\ scored /\ ~inputs[i].model.ok =>
                          /\ Has(d, "roberta_label") /\ d["roberta_label"] = "Neutral"
                          /\ Has(d, "roberta_confidence") /\ d["roberta_confidence"] = 0
                          /\ Has(d, "vader_score") /\ d["vader_score"] = inputs[i].compound
                          /\ Has(d, "analyzed_at") /\ d["analyzed_at"] = AnalysisVersion
                     /\ scored /\ inputs[i].model.ok =>
                          /\ Has(d, "roberta_label")
                          /\ d["roberta_label"] = RobertaLabels[ArgMax(inputs[i].model.scores)]
                          /\ d["roberta_confidence"] = inputs[i].model.scores[ArgMax(inputs[i].model.scores)]
                     /\ Strip(text) # <<>> /\ detect_called(text)
                           /\ inputs[i].det = "LangDetectException" =>
                          /\ SkippedFlag(d) /\ d["reason"] = SkipReason
                          /\ ~Has(d, "roberta_label") /\ ~Has(d, "vader_score")

\* A completed pass that met a classifier failure on one record and
\* classified the other.
C13_Witness ==
    /\ last_op = "analyze"
    /\ \E d \in Docs :
         /\ Has(d, "roberta_label") /\ d["roberta_label"] = "Neutral"
         /\ Has(d, "roberta_confidence") /\ d["roberta_confidence"] = 0
    /\ \E d \in Docs : Has(d, "roberta_label") /\ d["roberta_label"] = "Positive"

(***************************************************************************)
(* C14: in the loaded frame the lexicon label of every scored record is    *)
(* the threshold function of its score (>= +0.05 Positive, <= -0.05        *)
(* Negative, Neutral between), and a record the gate left skipped, without *)
(* annotation, is labelled Skipped whatever its score column holds.        *)
(***************************************************************************)
C14_LabelByThreshold ==
    \A k \in 1..Len(df) :
        LET row == df[k]
            doc == DocById(reviews_collection, row["_id"])
        IN  /\ Has(doc, "roberta_label") =>
                  row["vader_label"] =
                      IF row_score(row) >= PosThreshold THEN "Positive"
                      ELSE IF row_score(row) <= NegThreshold THEN "Negative"
                      ELSE "Neutral"
            /\ Has(doc, "vader_score") => row["vader_score"] = doc["vader_score"]
            /\ FullySkipped(doc) => row["vader_label"] = "Skipped"

\* A frame with a row labelled Positive at the threshold itself, and a
\* skipped row whose score column was filled with 0.0 and is labelled Skipped.
C14_Witness ==
    /\ \E k \in 1..Len(df) :
         /\ df[k]["vader_label"] = "Positive"
         /\ df[k]["vader_score"] = PosThreshold
    /\ \E k \in 1..Len(df) :
         /\ SkippedFlag(df[k])
         /\ Has(df[k], "vader_score") /\ df[k]["vader_score"] = 0
         /\ df[k]["vader_label"] = "Skipped"

(***************************************************************************)
(* A pass over a store of three raw reviews: an empty text, the text       *)
(* "Love it!!" and a text of 600 characters in another language. The pass  *)
(* logs what detect() answered for each selected review.                   *)
(***************************************************************************)
T_love == <<"L", "o", "v", "e", " ", "i", "t", "!", "!">>
T_foreign == [i \in 1..600 |-> "n"]

ScenarioReviews ==
    <<[recommendationid |-> "s1", review |-> T_empty],
      [recommendationid |-> "s2", review |-> T_love],
      [recommendationid |-> "s3", review |-> T_foreign]>>

\* What detect() answers for one selected review, "not called" where the
\* loop body's condition never reaches the call.
detect_answer(text, det) ==
    IF Strip(text) = <<>> \/ ~detect_called(text) THEN "not called" ELSE det

InitScenario ==
    /\ reviews_collection = save_to_mongo(<<>>, ScenarioReviews, "Elden Ring")
    /\ last_op = "save"
    /\ InitDash /\ InitFetch /\ InitPass

AnalyzeSentimentLogged ==
    /\ reviews_collection # <<>>
    /\ \E inputs \in PassInputs(reviews_collection) :
         /\ reviews_collection' = analyze_sentiment(reviews_collection, inputs)
         /\ detect_log' =
                [i \in 1..Len(inputs) |->
                    detect_answer(review_text(reviews_to_process(reviews_collection)[i]),
                                  inputs[i].det)]
    /\ last_op' = "analyze"
    /\ UNCHANGED <<dashVars, fetchVars, apc, operations>>

NextScenario == AnalyzeSentimentLogged

SpecScenario == InitScenario /\ [][NextScenario]_vars

(***************************************************************************)
(* C15: after one pass over the three raw reviews the empty one is skipped *)
(* with a reason naming the empty text, "Love it!!" is annotated with both *)
(* labels without detect() being consulted for it, and the 600-character   *)
(* one, which detect() does not take for English, is skipped with a reason *)
(* naming the language, a reason other than the first one's.               *)
(***************************************************************************)
C15_Scenario ==
    [][last_op = "save" /\ last_op' = "analyze" =>
          /\ SkippedFlag(reviews_collection'[1])
          /\ ~Has(reviews_collection'[1], "roberta_label")
          /\ FullyAnnotated(reviews_collection'[2])
          /\ detect_log'[2] = "not called"
          /\ detect_log'[3] # "en" =>
                /\ SkippedFlag(reviews_collection'[3])
                /\ ~Has(reviews_collection'[3], "roberta_label")
                /\ reviews_collection'[3]["reason"] # reviews_collection'[1]["reason"]]_vars

(***************************************************************************)
(* C16: a record that carries a context confidence carries a context label *)
(* too, the two being the outcome of one classifier call; no record keeps  *)
(* a confidence or an analysis version once its label is gone.             *)
(***************************************************************************)
C16_ConfidenceWithLabel ==
    \A d \in Docs :
        /\ Has(d, "roberta_confidence") =>
              /\ Has(d, "roberta_label")
              /\ \E out \in ModelOutputs :
                     get_roberta_sentiment(out) =
                         [label |-> d["roberta_label"],
                          confidence |-> d["roberta_confidence"]]
        /\ Has(d, "analyzed_at") => Has(d, "roberta_label")

(***************************************************************************)
(* analyze_sentiment() step by step, save_to_mongo running in between: the *)
(* reset (line 84), the find with the loop that builds the operations      *)
(* (lines 87-125) and the bulk_write (line 131) are separate calls to the  *)
(* store.                                                                  *)
(***************************************************************************)
\* The answers the stepwise pass draws from: an English review scored and
\* classified, or a review detect() takes for Spanish.
StepInputs ==
    {inp \in RecInputs :
        \/ inp.det = "en" /\ inp.compound = PosThreshold /\ inp.model.ok
        \/ inp.det = "es"}

\* The largest batch save_to_mongo is given while a pass is under way.
StepBatch == 1

\* save_to_mongo(reviews, game_name) at any point of a pass.
SaveInterleaved ==
    \E n \in 0..StepBatch, game_name \in Games : \E reviews \in [1..n -> Payloads] :
        /\ reviews_collection' = save_to_mongo(reviews_collection, reviews, game_name)
        /\ last_op' = "save"
        /\ UNCHANGED <<dashVars, fetchVars, passVars>>

PassReset ==
    /\ apc = "idle"
    /\ reviews_collection' = reset_analysis(reviews_collection)
    /\ apc' = "reset"
    /\ UNCHANGED <<last_op, operations, detect_log, dashVars, fetchVars>>

PassFind ==
    /\ apc = "reset"
    /\ LET todo == find_missing(reviews_collection, "roberta_label")
       IN  IF todo = <<>>
           THEN /\ operations' = <<>>
                /\ apc' = "idle"
                /\ last_op' = "analyze"
           ELSE /\ \E inputs \in [1..Len(todo) -> StepInputs] :
                      operations' = [i \in 1..Len(todo) |-> analyze_op(todo[i], inputs[i])]
                /\ apc' = "found"
                /\ last_op' = last_op
    /\ UNCHANGED <<reviews_collection, detect_log, dashVars, fetchVars>>

PassWrite ==
    /\ apc = "found"
    /\ reviews_collection' = bulk_write(reviews_collection, operations)
    /\ apc' = "idle"
    /\ last_op' = "analyze"
    /\ operations' = <<>>
    /\ UNCHANGED <<detect_log, dashVars, fetchVars>>

NextSteps == SaveInterleaved \/ PassReset \/ PassFind \/ PassWrite

SpecSteps == Init /\ [][NextSteps]_vars

\* The analyzer is run again and again, and a run that started goes on.
FairSpecSteps ==
    SpecSteps /\ WF_vars(PassReset) /\ WF_vars(PassFind) /\ WF_vars(PassWrite)

PassStep == apc' # apc
Patched(doc) == \E k \in 1..Len(operations) : operations[k].filter.value = doc["_id"]
Processed(doc) == Has(doc, "roberta_label") \/ SkippedFlag(doc)
Stored(id) == \E d \in Docs : d["recommendationid"] = id

(***************************************************************************)
(* C17: a pass selects and patches only records that had no context label  *)
(* when it began: a record that has a label keeps that label and its       *)
(* lexicon score through every step of the pass.                           *)
(***************************************************************************)
C17_LabelledUntouched ==
    [][PassStep =>
          \A i \in 1..Len(reviews_collection) :
              Has(reviews_collection[i], "roberta_label") =>
                  /\ SameField(reviews_collection[i], reviews_collection'[i], "roberta_label")
                  /\ SameField(reviews_collection[i], reviews_collection'[i], "vader_score")]_vars

(***************************************************************************)
(* C18: with save_to_mongo running at any point of a pass, a record        *)
(* inserted after the pass's find is left as it is by that pass's write    *)
(* and is selected by the next pass's find, which selects every stored     *)
(* record; no step of a pass changes or removes a raw field the upsert     *)
(* wrote; and every stored record is, again and again, annotated or        *)
(* skipped.                                                                *)
(***************************************************************************)
C18_WriteLeavesLater ==
    apc = "found" /\ apc' = "idle" =>
        \A i \in 1..Len(reviews_collection) :
            ~Patched(reviews_collection[i]) =>
                reviews_collection'[i] = reviews_collection[i]

C18_FindSelectsAll ==
    apc = "reset" /\ apc' # "reset" =>
        /\ Len(operations') = Len(reviews_collection)
        /\ \A i \in 1..Len(reviews_collection) :
               operations'[i].filter.value = reviews_collection[i]["_id"]

C18_RawFieldsKept ==
    PassStep =>
        /\ Len(reviews_collection') = Len(reviews_collection)
        /\ \A i \in 1..Len(reviews_collection) : \A f \in PayloadFields :
               SameField(reviews_collection[i], reviews_collection'[i], f)

====
